---- MODULE Spec2Model ----
(***************************************************************************)
(* A model of pyutk (src/src/pyutk/pyutk.py): the process-wide             *)
(* configuration, the discovery of sampler executables, the text point     *)
(* writer and reader, the discrepancy result reader and the Sampler and    *)
(* Discrepancy facades.                                                    *)
(*                                                                         *)
(* Python strings are modelled as sequences of one-character strings, so   *)
(* that split, strip, join, slicing, substring tests and the numeric       *)
(* conversions are computed character by character as the code does.       *)
(***************************************************************************)
EXTENDS Integers, Sequences, FiniteSets, TLC

VARIABLES
    utk_dir,      \* __UTK__DIR__     (pyutk.py:7)
    utk_wdir,     \* __UTK__WDIR__    (pyutk.py:8)
    utk_silence,  \* __UTK__SILENCE__ (pyutk.py:9)
    dirs,         \* the directories that exist in the file system
    files,        \* the temporary files that exist: records [dir, id]
    uid,          \* the number of uuid4() names drawn so far
    runs,         \* the number of child processes started so far
    listing,      \* the entries of the samplers directory
    content,      \* the characters of the point file on disk
    writer,       \* the PointWriter object
    written,      \* history: the write() calls that made `content`
    disc,         \* the discrepancy result file read by DiscrepancyReader
    wdir_req,     \* history: the argument of the last set_wdir that returned
    call,         \* the last call: [op, arg]
    ret           \* what the last call gave back: [exc, val]

vars == <<utk_dir, utk_wdir, utk_silence, dirs, files, uid, runs, listing,
          content, writer, written, disc, wdir_req, call, ret>>

cfgVars  == <<utk_dir, utk_wdir, utk_silence>>
fsVars   == <<dirs, files, uid, runs, wdir_req>>
ptVars   == <<content, writer, written>>

-----------------------------------------------------------------------------
(* Python string operations on sequences of characters.                    *)

Digit == {"0", "1", "2", "3", "4", "5", "6", "7", "8", "9"}

DigitVal(c) ==
    CASE c = "0" -> 0 [] c = "1" -> 1 [] c = "2" -> 2 [] c = "3" -> 3
      [] c = "4" -> 4 [] c = "5" -> 5 [] c = "6" -> 6 [] c = "7" -> 7
      [] c = "8" -> 8 [] c = "9" -> 9

DigitChar(n) ==
    CASE n = 0 -> "0" [] n = 1 -> "1" [] n = 2 -> "2" [] n = 3 -> "3"
      [] n = 4 -> "4" [] n = 5 -> "5" [] n = 6 -> "6" [] n = 7 -> "7"
      [] n = 8 -> "8" [] n = 9 -> "9"

\* The characters str.strip() removes.
Whitespace == {" ", "\t", "\n", "\r"}

\* s[:-k]
DropLast(s, k) == IF Len(s) <= k THEN <<>> ELSE SubSeq(s, 1, Len(s) - k)

\* s[k:]
DropFirst(s, k) == IF Len(s) <= k THEN <<>> ELSE SubSeq(s, k + 1, Len(s))

\* s.endswith(suf)
EndsWith(s, suf) ==
    /\ Len(s) >= Len(suf)
    /\ SubSeq(s, Len(s) - Len(suf) + 1, Len(s)) = suf

\* sub in s
Contains(s, sub) ==
    \E i \in 1..(Len(s) - Len(sub) + 1) : SubSeq(s, i, i + Len(sub) - 1) = sub

\* s.split(sep) for a one-character separator: "a__b" gives <<"a", "", "b">>
\* and the empty string gives one empty field.
RECURSIVE Split(_, _)
Split(s, sep) ==
    IF \A i \in 1..Len(s) : s[i] # sep
    THEN <<s>>
    ELSE LET i == CHOOSE k \in 1..Len(s) :
                      s[k] = sep /\ \A j \in 1..(k - 1) : s[j] # sep
         IN  <<SubSeq(s, 1, i - 1)>> \o Split(SubSeq(s, i + 1, Len(s)), sep)

\* sep.join(parts)
RECURSIVE Join(_, _)
Join(sep, parts) ==
    IF parts = <<>> THEN <<>>
    ELSE IF Len(parts) = 1 THEN parts[1]
    ELSE parts[1] \o sep \o Join(sep, Tail(parts))

\* Each line followed by a newline.
RECURSIVE TextOf(_)
TextOf(lines) ==
    IF lines = <<>> THEN <<>> ELSE lines[1] \o <<"\n">> \o TextOf(Tail(lines))

\* s.strip()
RECURSIVE Strip(_)
Strip(s) ==
    IF s = <<>> THEN s
    ELSE IF s[1] \in Whitespace THEN Strip(Tail(s))
    ELSE IF s[Len(s)] \in Whitespace THEN Strip(DropLast(s, 1))
    ELSE s

\* s.lower(), on the letters the model uses
LowerChar(c) ==
    CASE c = "N" -> "n" [] c = "M" -> "m" [] c = "V" -> "v"
      [] c = "A" -> "a" [] c = "X" -> "x"
      [] OTHER -> c

Lower(s) == [i \in 1..Len(s) |-> LowerChar(s[i])]

\* The value of a string of decimal digits.
RECURSIVE DigitsVal(_)
DigitsVal(s) ==
    IF s = <<>> THEN 0
    ELSE 10 * DigitsVal(DropLast(s, 1)) + DigitVal(s[Len(s)])

\* The decimal digits of n >= 0.
RECURSIVE DigitsOf(_)
DigitsOf(n) ==
    IF n < 10 THEN <<DigitChar(n)>>
    ELSE DigitsOf(n \div 10) \o <<DigitChar(n % 10)>>

\* int(s): surrounding whitespace, an optional sign, then one or more digits;
\* anything else raises ValueError (ok = FALSE).
int(s) ==
    LET t    == Strip(s)
        sgn  == t # <<>> /\ t[1] \in {"+", "-"}
        body == IF sgn THEN Tail(t) ELSE t
    IN  IF body # <<>> /\ \A i \in 1..Len(body) : body[i] \in Digit
        THEN [ok |-> TRUE,
              val |-> IF sgn /\ t[1] = "-" THEN 0 - DigitsVal(body)
                      ELSE DigitsVal(body)]
        ELSE [ok |-> FALSE, val |-> 0]

\* Python sets and lists are kept apart by a tag: a set has no append and a
\* list is ordered.
PySet(S)  == [t |-> "set", v |-> S]
PyList(q) == [t |-> "list", v |-> q]

\* The elements of a set or list.
Elems(x) == IF x.t = "set" THEN x.v ELSE {x.v[i] : i \in 1..Len(x.v)}

RECURSIVE Ascending(_)
Ascending(S) ==
    IF S = {} THEN <<>>
    ELSE LET m == CHOOSE x \in S : \A y \in S : x <= y
         IN  <<m>> \o Ascending(S \ {m})

\* sorted(x) of a set of integers: the list of its elements in ascending order
sorted(x) == PyList(Ascending(Elems(x)))

\* d[k] = v on a dict modelled as a function
Put(d, k, v) == [x \in (DOMAIN d) \cup {k} |-> IF x = k THEN v ELSE d[x]]

EmptyDict == <<>>

-----------------------------------------------------------------------------
(* The last call and its outcome.                                          *)

NoCall == [op |-> "none", arg |-> <<>>]
NoRet  == [exc |-> "none", val |-> <<>>]

Returned(v) == [exc |-> "none", val |-> v]
Raised(e)   == [exc |-> e, val |-> <<>>]

-----------------------------------------------------------------------------
(* Paths.                                                                  *)

Slash == <<"/">>
SamplersName == <<"s", "a", "m", "p", "l", "e", "r", "s">>

\* os.path.join(a, b) for a relative b
PathJoin(a, b) ==
    IF a = <<>> THEN b
    ELSE IF a[Len(a)] = "/" THEN a \o b
    ELSE a \o Slash \o b

\* os.path.dirname(p)
Dirname(p) ==
    IF \A i \in 1..Len(p) : p[i] # "/" THEN <<>>
    ELSE LET i == CHOOSE k \in 1..Len(p) :
                      p[k] = "/" /\ \A j \in (k + 1)..Len(p) : p[j] # "/"
         IN  IF i = 1 THEN Slash ELSE SubSeq(p, 1, i - 1)

TmpDir   == <<"/", "t", "m", "p">>                       \* tempfile.gettempdir()
UtkPath  == <<"/", "u", "t", "k">>
AddPath  == <<"/", "a", "d", "d">>                       \* a path holding "dd"
WorkPath == <<"/", "w", "o", "r", "k">>
SubPath  == <<"/", "w", "o", "r", "k", "/", "a">>        \* a child of WorkPath
NoPath   == <<"/", "n", "o">>                            \* never created

\* os.path.exists(p)
Exists(p) == p \in dirs

\* The installations: directories holding a samplers directory.
Installs == {UtkPath, AddPath}

-----------------------------------------------------------------------------
(* Process-wide configuration.                                             *)

\* set_dir without the test that the directory exists.
set_dir_unchecked(dir) ==
    /\ call' = [op |-> "set_dir", arg |-> dir]
    /\ utk_dir' = dir
    /\ ret' = Returned(<<>>)
    /\ UNCHANGED <<utk_wdir, utk_silence, fsVars, listing, ptVars, disc>>

\* set_dir(dir)
set_dir(dir) ==
    /\ call' = [op |-> "set_dir", arg |-> dir]
    /\ IF ~Exists(dir)
       THEN /\ ret' = Raised("FileNotFoundError")
            /\ UNCHANGED utk_dir
       ELSE /\ utk_dir' = dir
            /\ ret' = Returned(<<>>)
    /\ UNCHANGED <<utk_wdir, utk_silence, fsVars, listing, ptVars, disc>>

\* get_samplers_dir()
get_samplers_dir == PathJoin(utk_dir, SamplersName)

\* get_discrepancy_dir()
get_discrepancy_dir ==
    PathJoin(utk_dir, <<"d", "i", "s", "c", "r", "e", "p", "a", "n", "c", "y">>)

\* get_silence_args()
get_silence_args == IF utk_silence THEN <<"--silent">> ELSE <<>>

\* set_wdir(dir): the directory is created if needed; the assignment of
\* pyutk.py:42 is to a local name (the function has no global statement), so
\* no global changes.
set_wdir(dir) ==
    /\ call' = [op |-> "set_wdir", arg |-> dir]
    /\ IF ~Exists(dir) /\ ~Exists(Dirname(dir))
       THEN /\ ret' = Raised("FileNotFoundError")       \* os.mkdir
            /\ UNCHANGED <<dirs, wdir_req>>
       ELSE /\ dirs' = dirs \cup {dir}
            /\ wdir_req' = dir
            /\ ret' = Returned(<<>>)
    /\ UNCHANGED <<cfgVars, files, uid, runs, listing, ptVars, disc>>

\* set_silence(silence)
set_silence(silence) ==
    /\ call' = [op |-> "set_silence", arg |-> silence]
    /\ utk_silence' = silence
    /\ ret' = Returned(<<>>)
    /\ UNCHANGED <<utk_dir, utk_wdir, fsVars, listing, ptVars, disc>>

-----------------------------------------------------------------------------
(* Executable discovery.                                                   *)

DD == <<"d", "d">>
DI == <<"d", "i">>

\* The directory entries the model draws the samplers directory from.
E_foo_2dd == [name |-> <<"f", "o", "o", "_", "2", "d", "d">>, exec |-> TRUE,  isdir |-> FALSE]
E_foo_3dd == [name |-> <<"f", "o", "o", "_", "3", "d", "d">>, exec |-> TRUE,  isdir |-> FALSE]
E_foo_2di == [name |-> <<"f", "o", "o", "_", "2", "d", "i">>, exec |-> TRUE,  isdir |-> FALSE]
E_foo_xdd == [name |-> <<"f", "o", "o", "_", "x", "d", "d">>, exec |-> TRUE,  isdir |-> FALSE]
E_a_b_3dd == [name |-> <<"a", "_", "b", "_", "3", "d", "d">>, exec |-> TRUE,  isdir |-> FALSE]
E_bar_4dd == [name |-> <<"b", "a", "r", "_", "4", "d", "d">>, exec |-> FALSE, isdir |-> FALSE]
E_baz_5di == [name |-> <<"b", "a", "z", "_", "5", "d", "i">>, exec |-> TRUE,  isdir |-> TRUE]
E_run_6sh == [name |-> <<"r", "u", "n", "_", "6", "s", "h">>, exec |-> TRUE,  isdir |-> FALSE]

EntryPool == {E_foo_2dd, E_foo_3dd, E_foo_2di, E_foo_xdd, E_a_b_3dd,
              E_bar_4dd, E_baz_5di, E_run_6sh}

\* The largest samplers directory of the model.
MaxEntries == 3

\* The test of pyutk.py:119-121 on one entry of the scanned directory.
is_sampler(e) ==
    LET filepath == PathJoin(get_samplers_dir, e.name)
    IN  /\ e.exec
        /\ ~e.isdir
        /\ (Contains(filepath, DD) \/ Contains(filepath, DI))

\* x.append(v): a list grows; a set has no append and raises AttributeError.
Append_(x, v) ==
    IF x.t = "list" THEN [exc |-> "none", val |-> PyList(Append(x.v, v))]
    ELSE [exc |-> "AttributeError", val |-> x]

\* x.add(v) on a set
Add_(x, v) == PySet(x.v \cup {v})

\* The body of the try block (pyutk.py:126-149) for one qualifying file: the
\* dict after it, whatever exception ended it.
TrySampler(samplers, sampler_info, sampler_name, split_i_d) ==
    LET p == int(DropLast(sampler_info[Len(sampler_info)], 2))
    IN  IF ~p.ok THEN samplers                       \* ValueError, passed
        ELSE
        LET dim == p.val
            s1  == IF sampler_name \in DOMAIN samplers THEN samplers
                   ELSE Put(samplers, sampler_name,
                            IF split_i_d THEN EmptyDict ELSE PySet({}))
        IN  IF ~split_i_d
            THEN Put(s1, sampler_name, Add_(s1[sampler_name], dim))
            ELSE
            LET e1 == s1[sampler_name]
                e2 == IF "d" \in DOMAIN e1 THEN e1 ELSE Put(e1, "d", PySet({}))
                e3 == IF "i" \in DOMAIN e2 THEN e2 ELSE Put(e2, "i", PySet({}))
                s3 == Put(s1, sampler_name, e3)
            IN  IF Len(sampler_info) < 2 THEN s3      \* IndexError, passed
                ELSE IF EndsWith(sampler_info[2], DD)
                THEN LET a == Append_(e3["d"], dim)
                     IN  IF a.exc # "none" THEN s3    \* AttributeError, passed
                         ELSE Put(s1, sampler_name, Put(e3, "d", a.val))
                ELSE IF EndsWith(sampler_info[2], DI)
                THEN LET a == Append_(e3["i"], dim)
                     IN  IF a.exc # "none" THEN s3    \* AttributeError, passed
                         ELSE Put(s1, sampler_name, Put(e3, "i", a.val))
                ELSE s3

\* The loop of pyutk.py:117-149 over the entries; os.listdir gives them in an
\* arbitrary order, and the dict built does not depend on it.
RECURSIVE ScanEntries(_, _, _)
ScanEntries(entries, samplers, split_i_d) ==
    IF entries = {} THEN samplers
    ELSE LET e    == CHOOSE x \in entries : TRUE
             info == Split(e.name, "_")
             name == Join(<<"_">>, DropLast(info, 1))
             next == IF is_sampler(e)
                     THEN TrySampler(samplers, info, name, split_i_d)
                     ELSE samplers
         IN  ScanEntries(entries \ {e}, next, split_i_d)

\* The final loops of pyutk.py:151-156.
SortSamplers(samplers, split_i_d) ==
    IF ~split_i_d
    THEN [n \in DOMAIN samplers |-> sorted(samplers[n])]
    ELSE [n \in DOMAIN samplers |->
             Put(samplers[n], "d", sorted(samplers[n]["d"]))]

\* get_samplers(split_i_d)
get_samplers(split_i_d) ==
    /\ call' = [op |-> "get_samplers", arg |-> split_i_d]
    /\ IF ~Exists(get_samplers_dir)
       THEN ret' = Raised("FileNotFoundError")        \* os.listdir
       ELSE ret' = Returned(SortSamplers(
                       ScanEntries(listing, EmptyDict, split_i_d), split_i_d))
    /\ UNCHANGED <<cfgVars, fsVars, listing, ptVars, disc>>

\* The environment installs one more file in the samplers directory.
AddEntry(e) ==
    /\ e \notin listing
    /\ Cardinality(listing) < MaxEntries
    /\ listing' = listing \cup {e}
    /\ call' = NoCall
    /\ ret' = NoRet
    /\ UNCHANGED <<cfgVars, fsVars, ptVars, disc>>

-----------------------------------------------------------------------------
(* The Sampler and Discrepancy facades.                                    *)

\* The most uuid4() names one behaviour draws.
MaxCalls == 3

\* os.path.join(__UTK__WDIR__, uuid.uuid4().hex + ".dat"): the n-th fresh name
TempFile(n) == [dir |-> utk_wdir, id |-> n]

\* subprocess.run(args): FileNotFoundError when the executable is missing;
\* otherwise the child runs once and, succeeding, writes its output file
\* (a failing child writes none; run() does not look at the exit status).
Subprocess(exedir, outfile, child, fs) ==
    IF ~Exists(exedir)
    THEN [exc |-> "FileNotFoundError", started |-> 0, files |-> fs]
    ELSE [exc |-> "none", started |-> 1,
          files |-> IF child = "ok" /\ Exists(outfile.dir)
                    THEN fs \cup {outfile} ELSE fs]

\* Sampler.sample_to(outfile, n): the child, then PointReader.read(outfile)
sample_to(outfile, child, fs) ==
    LET run == Subprocess(get_samplers_dir, outfile, child, fs)
    IN  [started |-> run.started,
         files   |-> run.files,
         ret     |-> IF run.exc # "none" THEN Raised(run.exc)
                     ELSE IF outfile \notin run.files
                     THEN Raised("FileNotFoundError")           \* open()
                     ELSE Returned("points")]

\* Discrepancy.compute_to(outfile, input, s): the child, then
\* DiscrepancyReader.read(outfile)
compute_to(outfile, child, fs) ==
    LET run == Subprocess(get_discrepancy_dir, outfile, child, fs)
    IN  [started |-> run.started,
         files   |-> run.files,
         ret     |-> IF run.exc # "none" THEN Raised(run.exc)
                     ELSE IF outfile \notin run.files
                     THEN Raised("FileNotFoundError")           \* open()
                     ELSE Returned("metrics")]

FacadeCall(op, clean, child, made, started) ==
    [op |-> op,
     arg |-> [clean |-> clean, child |-> child, made |-> made, started |-> started]]

\* Sampler.sample(n, clean)
sample(clean, child) ==
    LET outfile == TempFile(uid + 1)
        r       == sample_to(outfile, child, files)
    IN  /\ uid < MaxCalls
        /\ uid' = uid + 1
        /\ runs' = runs + r.started
        /\ files' = IF r.ret.exc = "none" /\ clean
                    THEN r.files \ {outfile}                     \* os.remove
                    ELSE r.files
        /\ ret' = r.ret
        /\ call' = FacadeCall("sample", clean, child, r.files \ files, r.started)
        /\ UNCHANGED <<cfgVars, dirs, wdir_req, listing, ptVars, disc>>

\* Discrepancy.compute_from_file(input, s, clean)
compute_from_file(clean, child) ==
    LET outfile == TempFile(uid + 1)
        r       == compute_to(outfile, child, files)
    IN  /\ uid < MaxCalls
        /\ uid' = uid + 1
        /\ runs' = runs + r.started
        /\ files' = IF r.ret.exc = "none" /\ clean
                    THEN r.files \ {outfile}                     \* os.remove
                    ELSE r.files
        /\ ret' = r.ret
        /\ call' = FacadeCall("compute_from_file", clean, child,
                              r.files \ files, r.started)
        /\ UNCHANGED <<cfgVars, dirs, wdir_req, listing, ptVars, disc>>

\* The positional arguments PointWriter.write(self, points) takes after self.
WriteParams == 1

\* Discrepancy.compute(points, s, clean): the writer is built without a file
\* and write is called with two arguments, (tmpfile, points); the call raises
\* TypeError before anything is written or run (and with one argument it
\* would raise AttributeError on the writer's missing file).
compute(clean, child) ==
    /\ uid < MaxCalls
    /\ uid' = uid + 1                                            \* tmpfile
    /\ ret' = IF 2 > WriteParams THEN Raised("TypeError")
              ELSE Raised("AttributeError")
    /\ call' = FacadeCall("compute", clean, child, {}, 0)
    /\ UNCHANGED <<cfgVars, dirs, files, runs, wdir_req, listing, ptVars, disc>>

Child == {"ok", "fail"}

\* sample_to and compute_to are called on a path of the caller's choice while
\* fewer child processes than this have been started.
MaxRuns == 3

\* The output paths a caller names itself (no uuid4() name has id 0).
OutFile(dir) == [dir |-> dir, id |-> 0]

DirectCall(op, outfile, child, prior, started) ==
    [op |-> op,
     arg |-> [outfile |-> outfile, child |-> child, prior |-> prior,
              started |-> started]]

\* Sampler.sample_to(outfile, n) called on a path of the caller's choice:
\* nothing is removed, and a file an earlier run left there is read whenever
\* the child leaves it in place.
Sampler_sample_to(outfile, child) ==
    LET r == sample_to(outfile, child, files)
    IN  /\ runs < MaxRuns
        /\ runs' = runs + r.started
        /\ files' = r.files
        /\ ret' = r.ret
        /\ call' = DirectCall("sample_to", outfile, child, outfile \in files,
                              r.started)
        /\ UNCHANGED <<cfgVars, dirs, uid, wdir_req, listing, ptVars, disc>>

\* Discrepancy.compute_to(outfile, input, s) called on a path of the caller's
\* choice.
Discrepancy_compute_to(outfile, child) ==
    LET r == compute_to(outfile, child, files)
    IN  /\ runs < MaxRuns
        /\ runs' = runs + r.started
        /\ files' = r.files
        /\ ret' = r.ret
        /\ call' = DirectCall("compute_to", outfile, child, outfile \in files,
                              r.started)
        /\ UNCHANGED <<cfgVars, dirs, uid, wdir_req, listing, ptVars, disc>>

-----------------------------------------------------------------------------
(* Numbers in text.  A coordinate is the decimal num / 10^exp, kept         *)
(* normalised (no trailing zero in the fraction).                          *)

RECURSIVE Pow10(_)
Pow10(k) == IF k = 0 THEN 1 ELSE 10 * Pow10(k - 1)

RECURSIVE Normalise(_, _)
Normalise(num, exp) ==
    IF exp > 0 /\ num % 10 = 0 THEN Normalise(num \div 10, exp - 1)
    ELSE [num |-> num, exp |-> exp]

Abs(x) == IF x < 0 THEN 0 - x ELSE x

\* The digits of n padded with zeros on the left to k digits.
RECURSIVE PadDigits(_, _)
PadDigits(n, k) ==
    IF k = 0 THEN <<>>
    ELSE PadDigits(n \div 10, k - 1) \o <<DigitChar(n % 10)>>

\* FormatDouble without the sign.
FormatDoubleUnsigned(v) ==
    LET a == Abs(v.num)
        p == Pow10(v.exp)
    IN  DigitsOf(a \div p) \o <<".">>
        \o (IF v.exp = 0 THEN <<"0">> ELSE PadDigits(a % p, v.exp))

\* astype(str) on one double: the shortest decimal that reads back, with a
\* fraction part always present ("-1.0", "0.5", "12.25").
FormatDouble(v) ==
    LET a == Abs(v.num)
        p == Pow10(v.exp)
    IN  (IF v.num < 0 THEN <<"-">> ELSE <<>>)
        \o DigitsOf(a \div p) \o <<".">>
        \o (IF v.exp = 0 THEN <<"0">> ELSE PadDigits(a % p, v.exp))

\* np.double(s) on a decimal numeral: surrounding whitespace, an optional
\* sign, digits with at most one point and at least one digit; anything else
\* raises ValueError (ok = FALSE).  Exponents, inf and nan are not in the
\* alphabet of the model.
ParseDouble(s) ==
    LET t     == Strip(s)
        sgn   == t # <<>> /\ t[1] \in {"+", "-"}
        body  == IF sgn THEN Tail(t) ELSE t
        parts == Split(body, ".")
        ip    == parts[1]
        fp    == IF Len(parts) = 2 THEN parts[2] ELSE <<>>
        good  == /\ Len(parts) <= 2
                 /\ \A i \in 1..Len(ip) : ip[i] \in Digit
                 /\ \A i \in 1..Len(fp) : fp[i] \in Digit
                 /\ Len(ip) + Len(fp) >= 1
    IN  IF ~good THEN [ok |-> FALSE, val |-> [num |-> 0, exp |-> 0]]
        ELSE LET m == DigitsVal(ip \o fp)
             IN  [ok |-> TRUE,
                  val |-> Normalise(IF sgn /\ t[1] = "-" THEN 0 - m ELSE m,
                                    Len(fp))]

\* The coordinates of the model: 0.5, -1.0 and 12.25.
V_half  == [num |-> 5, exp |-> 1]
V_neg   == [num |-> -1, exp |-> 0]
V_frac  == [num |-> 1225, exp |-> 2]
Coord == {V_half, V_neg, V_frac}

-----------------------------------------------------------------------------
(* PointWriter.                                                            *)

Newline  == <<"\n">>
Sentinel == <<"#">>                          \* pointset_sep (pyutk.py:255)

\* PointWriter.__write_points(file, points): the text appended to the file
RECURSIVE write_points(_, _)
write_points(sep, points) ==
    IF points = <<>> THEN <<>>
    ELSE Join(<<sep>>, [j \in 1..Len(points[1]) |-> FormatDouble(points[1][j])])
         \o Newline \o write_points(sep, Tail(points))

\* process_header without the test for an empty file.
process_header_always(append, text) ==
    IF ~append THEN <<>>
    ELSE (IF text # <<>> /\ text[Len(text)] # "\n" THEN Newline ELSE <<>>)
         \o Sentinel \o Newline

\* PointWriter.__process_header(file): the text appended before a 2-D point
\* set.  tell() of a file opened 'a+' is the size of the file.
process_header(append, text) ==
    IF ~append THEN <<>>
    ELSE LET current == Len(text)
         IN  IF current = 0 THEN <<>>
             ELSE (IF text[current] # "\n" THEN Newline ELSE <<>>)
                  \o Sentinel \o Newline

\* The loop of pyutk.py:327-330 over a sequence of point sets.
RECURSIVE write_sequence(_, _)
write_sequence(sep, sets) ==
    IF sets = <<>> THEN <<>>
    ELSE write_points(sep, sets[1]) \o Sentinel \o Newline
         \o write_sequence(sep, Tail(sets))

\* The most write() calls recorded for one file.
MaxWrites == 3

\* first: the write is the first one of its writer since it opened the file.
Logged(nd, sets) ==
    [nd |-> nd, sets |-> sets, sep |-> writer.sep, append |-> writer.append,
     first |-> ~writer.wrote]

\* PointWriter(file, sep, pointset_sep, append): __init__ opens the file,
\* 'a+' keeps its content and 'w+' truncates it.
PointWriter(sep, append) ==
    /\ writer.file = "none"
    /\ writer' = [file |-> "open", append |-> append, sep |-> sep, wrote |-> FALSE]
    /\ content' = IF append THEN content ELSE <<>>
    /\ written' = IF append THEN written ELSE [init |-> <<>>, log |-> <<>>]
    /\ call' = [op |-> "PointWriter", arg |-> <<>>]
    /\ ret' = Returned(<<>>)
    /\ UNCHANGED <<cfgVars, fsVars, listing, disc>>

\* PointWriter.open(outFile) on the same file: an open file is closed first.
open ==
    /\ writer' = [writer EXCEPT !.file = "open", !.wrote = FALSE]
    /\ content' = IF writer.append THEN content ELSE <<>>
    /\ written' = IF writer.append THEN written ELSE [init |-> <<>>, log |-> <<>>]
    /\ call' = [op |-> "open", arg |-> <<>>]
    /\ ret' = Returned(<<>>)
    /\ UNCHANGED <<cfgVars, fsVars, listing, disc>>

\* PointWriter.close()
close ==
    /\ call' = [op |-> "close", arg |-> <<>>]
    /\ IF writer.file = "none"
       THEN /\ ret' = Raised("AttributeError")          \* None.close()
            /\ UNCHANGED writer
       ELSE /\ writer' = [writer EXCEPT !.file = "none"]
            /\ ret' = Returned(<<>>)
    /\ UNCHANGED <<cfgVars, fsVars, listing, content, written, disc>>

\* PointWriter.write(points): nd is points.ndim; a 2-D input is one point
\* set (sets holds it alone), any other input is iterated as a sequence of
\* point sets.
write(nd, sets) ==
    /\ call' = [op |-> "write",
                arg |-> [nd |-> nd, k |-> Len(sets), before |-> Len(content)]]
    /\ IF writer.file = "none"
       THEN /\ ret' = Raised("AttributeError")          \* None.tell(), None.write()
            /\ UNCHANGED <<content, written, writer>>
       ELSE /\ content' =
                 IF nd = 2
                 THEN content \o process_header(writer.append, content)
                              \o write_points(writer.sep, sets[1])
                 ELSE content \o write_sequence(writer.sep, sets)
            /\ written' = [written EXCEPT !.log = Append(@, Logged(nd, sets))]
            /\ writer' = [writer EXCEPT !.wrote = TRUE]
            /\ ret' = Returned(<<>>)
    /\ UNCHANGED <<cfgVars, fsVars, listing, disc>>

-----------------------------------------------------------------------------
(* PointReader.                                                            *)

\* The lines a text file iterates over: the pieces ended by "\n", and a last
\* piece without one when it is not empty.
FileLines(text) ==
    LET parts == Split(text, "\n")
    IN  IF parts[Len(parts)] = <<>> THEN DropLast(parts, 1) ELSE parts

\* list(map(np.double, point.strip().split(sep))), then points[i] = coords:
\* a row of d coordinates is stored, one coordinate is broadcast to the row,
\* any other count raises ValueError.
ReadRow(line, sep, d) ==
    LET toks   == Split(Strip(line), sep)
        parsed == [j \in 1..Len(toks) |-> ParseDouble(toks[j])]
    IN  IF \E j \in 1..Len(toks) : ~parsed[j].ok
        THEN [exc |-> "ValueError", row |-> <<>>]
        ELSE IF Len(toks) = d
        THEN [exc |-> "none", row |-> [j \in 1..d |-> parsed[j].val]]
        ELSE IF Len(toks) = 1
        THEN [exc |-> "none", row |-> [j \in 1..d |-> parsed[1].val]]
        ELSE [exc |-> "ValueError", row |-> <<>>]

\* PointReader(n, d, sep).read_text(filepath): the rows are stored in file
\* order into an (n, d) array from np.empty, whose rows the file does not
\* fill keep arbitrary values (fill).
read_text(text, n, d, sep, fill) ==
    LET lines == FileLines(text)
        rows  == [i \in 1..Len(lines) |-> ReadRow(lines[i], sep, d)]
        bad   == {i \in 1..Len(lines) : rows[i].exc # "none" \/ i > n}
    IN  IF bad # {}
        THEN LET i == CHOOSE x \in bad : \A y \in bad : x <= y
             IN  IF rows[i].exc # "none" THEN Raised(rows[i].exc)
                 ELSE Raised("IndexError")
        ELSE Returned([i \in 1..n |->
                          IF i <= Len(lines) THEN rows[i].row ELSE fill[i]])

\* reader = PointReader(n, d, sep); reader.read_text(file), once the writer
\* has closed the file.  The rows after the last line of the file hold
\* whatever np.empty found in memory.
read(n, d, sep) ==
    /\ writer.file = "none"
    /\ call' = [op |-> "read", arg |-> [n |-> n, d |-> d, sep |-> sep]]
    /\ \E fill \in [(Len(FileLines(content)) + 1)..n -> [1..d -> Coord]] :
          ret' = read_text(content, n, d, sep, fill)
    /\ UNCHANGED <<cfgVars, fsVars, listing, ptVars, disc>>

-----------------------------------------------------------------------------
(* DiscrepancyReader.                                                      *)

\* [x for x in tokens if x], without the filter.
NonEmptyUnfiltered(tokens) == tokens

\* [x for x in tokens if x]
RECURSIVE NonEmpty(_)
NonEmpty(tokens) ==
    IF tokens = <<>> THEN <<>>
    ELSE IF tokens[1] = <<>> THEN NonEmpty(Tail(tokens))
    ELSE <<tokens[1]>> \o NonEmpty(Tail(tokens))

\* The names of pyutk.py:380-382 from the first line of the file.
HeaderNames(line, sep, exclude) ==
    LET names == NonEmpty(Split(Strip(line), sep))
    IN  [i \in 1..Len(names) |-> Lower(DropFirst(names[i], exclude))]

\* The loop of pyutk.py:388-390: zip stops at the shorter sequence, a value
\* that is no number raises ValueError.
RECURSIVE ZipResult(_, _, _)
ZipResult(names, values, result) ==
    IF names = <<>> \/ values = <<>> THEN [exc |-> "none", val |-> result]
    ELSE LET v == ParseDouble(values[1])
         IN  IF ~v.ok THEN [exc |-> "ValueError", val |-> result]
             ELSE ZipResult(Tail(names), Tail(values),
                            Put(result, names[1], v.val))

\* The mapping of one line after the header (pyutk.py:385-390).
LineResult(names, line, sep) ==
    ZipResult(names, NonEmpty(Split(Strip(line), sep)), EmptyDict)

\* DiscrepancyReader(sep, exculde_char).read(filepath) on the text of the file
disc_read_text(text, sep, exclude) ==
    LET lines   == FileLines(text)
        names   == IF lines = <<>> THEN <<>>               \* readline() gives ""
                   ELSE HeaderNames(lines[1], sep, exclude)
        data    == IF lines = <<>> THEN <<>> ELSE Tail(lines)
        results == [i \in 1..Len(data) |-> LineResult(names, data[i], sep)]
    IN  IF \E i \in 1..Len(data) : results[i].exc # "none"
        THEN Raised("ValueError")
        ELSE Returned([i \in 1..Len(data) |-> results[i].val])

\* reader = DiscrepancyReader(sep, exculde_char); reader.read(file)
disc_read(sep, exclude) ==
    /\ call' = [op |-> "disc_read", arg |-> [sep |-> sep, exclude |-> exclude]]
    /\ ret' = disc_read_text(disc.text, sep, exclude)
    /\ UNCHANGED <<cfgVars, fsVars, listing, ptVars, disc>>

-----------------------------------------------------------------------------
(* The idle values of the parts a specification does not exercise.         *)

NoDisc == [text |-> <<>>, sep |-> "\t", names |-> <<>>, rows |-> <<>>]

IdleWriter == [file |-> "none", append |-> TRUE, sep |-> "\t", wrote |-> FALSE]

InitCommon ==
    /\ utk_dir = <<>>
    /\ utk_wdir = TmpDir
    /\ utk_silence = TRUE
    /\ files = {}
    /\ uid = 0
    /\ runs = 0
    /\ wdir_req = <<>>
    /\ call = NoCall
    /\ ret = NoRet

(* Discovery: the samplers directory fills up, the binary directory is set  *)
(* and the samplers are listed.                                            *)
InitDiscovery ==
    /\ InitCommon
    /\ dirs = {TmpDir} \cup Installs
                \cup {PathJoin(d, SamplersName) : d \in Installs}
    /\ listing = {}
    /\ content = <<>>
    /\ writer = IdleWriter
    /\ written = [init |-> <<>>, log |-> <<>>]
    /\ disc = NoDisc

NextDiscovery ==
    \/ \E e \in EntryPool : AddEntry(e)
    \/ \E d \in Installs \cup {NoPath} : set_dir(d)
    \/ \E s \in BOOLEAN : get_samplers(s)

SpecDiscovery == InitDiscovery /\ [][NextDiscovery]_vars

(* Configuration and facades: the directories are set, and points are      *)
(* sampled and discrepancies computed through temporary files.             *)
InitConfig ==
    /\ InitCommon
    /\ dirs = {Slash, TmpDir} \cup Installs
                \cup {PathJoin(d, SamplersName) : d \in Installs}
                \cup {PathJoin(d, <<"d", "i", "s", "c", "r", "e", "p", "a", "n", "c", "y">>) : d \in Installs}
    /\ listing = {}
    /\ content = <<>>
    /\ writer = IdleWriter
    /\ written = [init |-> <<>>, log |-> <<>>]
    /\ disc = NoDisc

NextConfig ==
    \/ \E d \in {UtkPath, WorkPath, SubPath} : set_dir(d)
    \/ \E d \in {TmpDir, WorkPath, SubPath} : set_wdir(d)
    \/ \E b \in BOOLEAN : set_silence(b)
    \/ \E c \in BOOLEAN, k \in Child : sample(c, k)
    \/ \E c \in BOOLEAN, k \in Child : compute(c, k)
    \/ \E c \in BOOLEAN, k \in Child : compute_from_file(c, k)
    \/ \E d \in {TmpDir, WorkPath}, k \in Child : Sampler_sample_to(OutFile(d), k)
    \/ \E d \in {TmpDir, WorkPath}, k \in Child : Discrepancy_compute_to(OutFile(d), k)

SpecConfig == InitConfig /\ [][NextConfig]_vars

(* Points: writers append point sets to one file.                          *)


\* Text a file may hold before the first writer opens it.
OldText == {<<>>, <<"0", ".", "5">>, <<"0", ".", "5", "\n">>}

\* The point sets the writers of SpecPoints are given: of no point (an array
\* of shape (0, 2)), of one and of two points.
P_none == <<>>
P_one  == <<<<V_half, V_neg>>>>
P_two  == <<<<V_neg, V_frac>>, <<V_half, V_half>>>>
SetPool == {P_none, P_one, P_two}

\* The numbers of point sets of a 3-D input.
SetCounts == {1, 2}

\* The 3-D inputs: sequences of point sets of one shape.
SeqPool ==
    {q \in UNION {[1..k -> SetPool] : k \in SetCounts} :
        \A i \in 1..Len(q) : Len(q[i]) = Len(q[1])}

InitPoints ==
    /\ InitCommon
    /\ dirs = {TmpDir}
    /\ listing = {}
    /\ content \in OldText
    /\ writer = IdleWriter
    /\ written = [init |-> content, log |-> <<>>]
    /\ disc = NoDisc

CanWrite == Len(written.log) < MaxWrites

NextPoints ==
    \/ \E a \in BOOLEAN : PointWriter("\t", a)
    \/ open
    \/ close
    \/ \E p \in SetPool : CanWrite /\ write(2, <<p>>)
    \/ \E q \in SeqPool : CanWrite /\ write(3, q)

SpecPoints == InitPoints /\ [][NextPoints]_vars

(* Round trip: one point set is written to an empty file and read back.    *)

Dims  == {1, 2}
Seps  == {"\t", ",", " "}

\* The most points of a point set.
MaxPoints == 2

PointSets == UNION {[1..n -> [1..d -> Coord]] : n \in 0..MaxPoints, d \in Dims}

InitRoundTrip ==
    /\ InitCommon
    /\ dirs = {TmpDir}
    /\ listing = {}
    /\ content = <<>>
    /\ writer = IdleWriter
    /\ written = [init |-> <<>>, log |-> <<>>]
    /\ disc = NoDisc

\* The behaviour ends with the read.
NextRoundTrip ==
    /\ call.op # "read"
    /\ \/ \E sep \in Seps, a \in BOOLEAN : PointWriter(sep, a)
       \/ close
       \/ \E p \in PointSets : written.log = <<>> /\ write(2, <<p>>)
       \/ \E n \in 0..MaxPoints, d \in Dims, sep \in Seps : read(n, d, sep)

SpecRoundTrip == InitRoundTrip /\ [][NextRoundTrip]_vars

(* Discrepancy results: a result file printed by the discrepancy executable *)
(* is read.                                                                *)

\* The column names the executable prints, distinct once their prefix is
\* removed and their case folded.
N_nb   == <<"#", "N", "b">>
N_mean == <<"#", "M", "e", "a", "n">>
N_max  == <<"#", "M", "a", "X">>
NamePool == {N_nb, N_mean, N_max}

\* The numbers the executable prints, each with its value.
NumberPool ==
    {[text |-> <<"1", "0", "2", "4">>, val |-> [num |-> 1024, exp |-> 0]],
     [text |-> <<"-", "0", ".", "2", "5">>, val |-> [num |-> -25, exp |-> 2]]}

\* The most columns and the most data lines of a result file.
MaxCols == 2
MaxRows == 2

\* The separators between two columns of a line: one, or two as in the
\* example of pyutk.py:362-363.
Gap(sep, width) == [i \in 1..width |-> sep]

RowText(tokens, sep, width) == Join(Gap(sep, width), tokens) \o Newline

\* The text of a result file: the header, then one line per row.
ResultText(names, rows, sep, hgap, dgap) ==
    RowText(names, sep, hgap)
    \o TextOf([r \in 1..Len(rows) |->
                 Join(Gap(sep, dgap), [i \in 1..Len(rows[r]) |-> rows[r][i].text])])

ColumnNames ==
    {q \in UNION {[1..k -> NamePool] : k \in 1..MaxCols} :
        \A i, j \in 1..Len(q) : i # j => q[i] # q[j]}

InitDisc ==
    /\ InitCommon
    /\ dirs = {TmpDir}
    /\ listing = {}
    /\ content = <<>>
    /\ writer = IdleWriter
    /\ written = [init |-> <<>>, log |-> <<>>]
    /\ \E names \in ColumnNames, n \in 0..MaxRows, sep \in {"\t", ","},
          hgap \in {1, 2}, dgap \in {1, 2} :
          \E rows \in [1..n -> [1..Len(names) -> NumberPool]] :
              disc = [text |-> ResultText(names, rows, sep, hgap, dgap),
                      sep |-> sep, names |-> names, rows |-> rows]

\* The behaviour ends with the read.
NextDisc ==
    /\ call.op # "disc_read"
    /\ \E sep \in {"\t", ","}, exclude \in {0, 1, 2} : disc_read(sep, exclude)

SpecDisc == InitDisc /\ [][NextDisc]_vars

-----------------------------------------------------------------------------
(* Discovery: what the specification says of a directory.                  *)

\* The policy of the specification: executable, not a directory, and the
\* file's own name holds "dd" or "di".
Qualifies(e) ==
    /\ e.exec
    /\ ~e.isdir
    /\ (Contains(e.name, DD) \/ Contains(e.name, DI))

NameOf(e) == Join(<<"_">>, DropLast(Split(e.name, "_"), 1))
DimToken(e) == LET info == Split(e.name, "_") IN info[Len(info)]

\* The file is named <name>_<k>dd or <name>_<k>di with k an integer.
NamedDD(e) ==
    /\ Len(Split(e.name, "_")) >= 2
    /\ EndsWith(DimToken(e), DD)
    /\ int(DropLast(DimToken(e), 2)).ok
NamedDI(e) ==
    /\ Len(Split(e.name, "_")) >= 2
    /\ EndsWith(DimToken(e), DI)
    /\ int(DropLast(DimToken(e), 2)).ok

DimOf(e) == int(DropLast(DimToken(e), 2)).val

Samplers == {e \in listing : Qualifies(e) /\ (NamedDD(e) \/ NamedDI(e))}

ListedDefault ==
    call.op = "get_samplers" /\ call.arg = FALSE /\ Exists(get_samplers_dir)
ListedSplit ==
    call.op = "get_samplers" /\ call.arg = TRUE /\ Exists(get_samplers_dir)

\* C1: after get_samplers() in its default mode on an existing samplers
\* directory, nothing was raised, the keys of the returned mapping are
\* exactly the names of the qualifying files named <name>_<k>dd or
\* <name>_<k>di, and the value of each name is the ascending list of the
\* distinct dimensions found for it (a qualifying file whose dimension token
\* does not parse adds nothing).
C1_DefaultMapping ==
    ListedDefault =>
        /\ ret.exc = "none"
        /\ DOMAIN ret.val = {NameOf(e) : e \in Samplers}
        /\ \A n \in DOMAIN ret.val :
              ret.val[n] =
                  PyList(Ascending({DimOf(e) : e \in {x \in Samplers : NameOf(x) = n}}))

\* C7: after get_samplers(split_i_d=True), every discovered name maps to a
\* mapping with the keys "d" and "i"; "d" is the sorted sequence of the
\* dimensions of the files <name>_<k>dd and "i" that of the files
\* <name>_<k>di.
C7_SplitMapping ==
    ListedSplit =>
        /\ ret.exc = "none"
        /\ DOMAIN ret.val = {NameOf(e) : e \in Samplers}
        /\ \A n \in DOMAIN ret.val :
              /\ DOMAIN ret.val[n] = {"d", "i"}
              /\ ret.val[n]["d"].t = "list"
              /\ ret.val[n]["d"].v =
                    Ascending({DimOf(e) : e \in {x \in Samplers : NamedDD(x) /\ NameOf(x) = n}})
              /\ ret.val[n]["i"].t = "list"
              /\ ret.val[n]["i"].v =
                    Ascending({DimOf(e) : e \in {x \in Samplers : NamedDI(x) /\ NameOf(x) = n}})

\* C10: whatever the path of the samplers directory, a name or a dimension
\* is in the result of get_samplers() only if some entry that is executable,
\* is not a directory and whose own file name holds "dd" or "di" gave it.
C10_OnlyQualifyingContribute ==
    ListedDefault /\ ret.exc = "none" =>
        \A n \in DOMAIN ret.val :
            \A k \in Elems(ret.val[n]) :
                \E e \in listing :
                    /\ Qualifies(e)
                    /\ NameOf(e) = n
                    /\ int(DropLast(DimToken(e), 2)).ok
                    /\ DimOf(e) = k

-----------------------------------------------------------------------------
(* Configuration and facades: what the specification says.                 *)

Facades == {"sample", "compute", "compute_from_file"}

\* C5: once set_wdir(dir) has returned, every temporary file a later
\* Sampler.sample, Discrepancy.compute or Discrepancy.compute_from_file call
\* creates is in dir.
C5_TempFilesInWdir ==
    (call.op \in Facades /\ wdir_req # <<>>) =>
        \A f \in call.arg.made : f.dir = wdir_req

\* C6 as claimed: set_dir or set_wdir called with a path that does not exist
\* raises FileNotFoundError and leaves the configuration and the file system
\* unchanged.
C6_MissingDirRaises ==
    [][(call'.op \in {"set_dir", "set_wdir"} /\ ~Exists(call'.arg)) =>
           /\ ret'.exc = "FileNotFoundError"
           /\ UNCHANGED <<cfgVars, dirs, files>>]_vars

\* C6 as the code has it: set_dir called with a path that does not exist
\* raises FileNotFoundError and leaves the configuration and the file system
\* unchanged; set_wdir called with a path that does not exist raises
\* FileNotFoundError (changing nothing) only when the path's parent is missing
\* too, and otherwise creates the directory and returns.
C6_SetDirRaisesSetWdirCreates ==
    [][/\ (call'.op = "set_dir" /\ ~Exists(call'.arg)) =>
             /\ ret'.exc = "FileNotFoundError"
             /\ UNCHANGED <<cfgVars, dirs, files>>
       /\ (call'.op = "set_wdir" /\ ~Exists(call'.arg)) =>
             IF Exists(Dirname(call'.arg))
             THEN /\ ret'.exc = "none"
                  /\ dirs' = dirs \cup {call'.arg}
                  /\ UNCHANGED files
             ELSE /\ ret'.exc = "FileNotFoundError"
                  /\ UNCHANGED <<cfgVars, dirs, files>>]_vars

\* A set_dir call on a missing path has raised, after set_wdir has created a
\* directory.
C6_Witness ==
    /\ call.op = "set_dir"
    /\ call.arg \notin dirs
    /\ ret.exc = "FileNotFoundError"
    /\ WorkPath \in dirs

\* C8: Discrepancy.compute writes the point set to a fresh temporary file,
\* starts the discrepancy executable once on it and, the child succeeding,
\* returns the parsed metrics; with clean=True no temporary file of the call
\* is left.
C8_ComputeRunsOnce ==
    call.op = "compute" =>
        /\ call.arg.started = 1
        /\ call.arg.child = "ok" => (ret.exc = "none" /\ ret.val = "metrics")
        /\ call.arg.clean => call.arg.made \cap files = {}

\* C11: when the child process that Sampler.sample_to or
\* Discrepancy.compute_to has started exits with a non-zero status, the call
\* raises an error instead of returning a result, whether or not a file was
\* at the output path before the call, and it has started one child process.
C11_ChildFailureSurfaces ==
    (/\ call.op \in {"sample_to", "compute_to"}
     /\ call.arg.child = "fail"
     /\ call.arg.started > 0) =>
        /\ ret.exc # "none"
        /\ call.arg.started = 1

-----------------------------------------------------------------------------
(* Points: what the specification says.                                    *)

\* The lines of one logged point set: the coordinates of each point joined
\* by the separator of its writer.
LinesOf(sep, points) ==
    [i \in 1..Len(points) |->
        Join(<<sep>>, [j \in 1..Len(points[i]) |-> FormatDouble(points[i][j])])]

\* The lines of the logged 2-D writes with one sentinel line between each two.
RECURSIVE Separated(_)
Separated(log) ==
    IF log = <<>> THEN <<>>
    ELSE LinesOf(log[1].sep, log[1].sets[1])
         \o (IF Len(log) = 1 THEN <<>> ELSE <<Sentinel>> \o Separated(Tail(log)))

\* Every logged write is of one point set, by an append-mode writer.
AllSingle ==
    \A i \in 1..Len(written.log) :
        written.log[i].nd = 2 /\ written.log[i].append

NoneEmpty == \A i \in 1..Len(written.log) : written.log[i].sets[1] # <<>>

\* The file as the claim has it after the logged writes.
Appended ==
    written.init
    \o (IF written.init = <<>> THEN <<>>
        ELSE (IF written.init[Len(written.init)] = "\n"
              THEN <<>> ELSE Newline) \o Sentinel \o Newline)
    \o TextOf(Separated(written.log))

\* C2 as claimed: after any k >= 1 write() calls of single point sets by
\* append-mode writers, a file that was empty holds the k point sets in write
\* order with exactly one sentinel line between each two and none before the
\* first or after the last; a file that held text holds that text, one
\* newline if the text did not end with one, one sentinel line, and then the
\* same.
C2_AnySequence ==
    (written.log # <<>> /\ AllSingle) => content = Appended

\* C2 as the code has it: the same, for point sets of at least one point
\* each.
C2_AppendSeparates ==
    (written.log # <<>> /\ AllSingle /\ NoneEmpty) => content = Appended

\* Three single point sets were appended to an empty file, the second one by
\* a writer that had reopened the file.
C2_Witness ==
    /\ written.init = <<>>
    /\ Len(written.log) = 3
    /\ AllSingle
    /\ NoneEmpty
    /\ written.log[2].first

\* C3: a point set written alone to a text file and read back by
\* PointReader(n, d) with the writer's separator, n its number of points and
\* d its dimension, comes back as an (n, d) array whose entry (i, j) is
\* coordinate j of point i.
C3_RoundTrip ==
    (/\ call.op = "read"
     /\ written.init = <<>>
     /\ Len(written.log) = 1
     /\ written.log[1].nd = 2
     /\ call.arg.sep = written.log[1].sep
     /\ call.arg.n = Len(written.log[1].sets[1])
     /\ \A i \in 1..call.arg.n :
           call.arg.d = Len(written.log[1].sets[1][i])) =>
        /\ ret.exc = "none"
        /\ Len(ret.val) = call.arg.n
        /\ \A i \in 1..call.arg.n :
              /\ Len(ret.val[i]) = call.arg.d
              /\ \A j \in 1..call.arg.d :
                    ret.val[i][j] = written.log[1].sets[1][i][j]

\* Two points of dimension 2, a negative and a two-digit coordinate among
\* them, were written with the space separator and read back.
C3_Witness ==
    /\ call.op = "read"
    /\ ret.exc = "none"
    /\ Len(written.log) = 1
    /\ call.arg = [n |-> 2, d |-> 2, sep |-> " "]
    /\ written.log[1].sep = " "
    /\ written.log[1].sets[1] = <<<<V_neg, V_frac>>, <<V_half, V_neg>>>>

\* The text the last write() call added to the file.
Added == SubSeq(content, call.arg.before + 1, Len(content))

SentinelLines(lines) == {i \in 1..Len(lines) : lines[i] = Sentinel}

\* C9: one write() call given a sequence of k >= 1 point sets adds k - 1
\* sentinel lines, each between two point sets: the text added does not end
\* with a sentinel line.
C9_SequenceSeparated ==
    (call.op = "write" /\ call.arg.nd = 3 /\ ret.exc = "none") =>
        LET lines == FileLines(Added)
        IN  /\ Cardinality(SentinelLines(lines)) = call.arg.k - 1
            /\ lines[Len(lines)] # Sentinel

-----------------------------------------------------------------------------
(* Discrepancy results: what the specification says.                       *)

KeyOf(name, exclude) == Lower(DropFirst(name, exclude))

\* C4: DiscrepancyReader.read() returns one mapping per line after the
\* header, in file order; the keys of each mapping are the non-empty header
\* tokens with the first exclude_char characters removed and lowercased, and
\* the value under the i-th key is the number of the i-th non-empty token of
\* that line.
C4_OneMappingPerLine ==
    (call.op = "disc_read" /\ call.arg.sep = disc.sep) =>
        /\ ret.exc = "none"
        /\ Len(ret.val) = Len(disc.rows)
        /\ \A r \in 1..Len(disc.rows) :
              /\ DOMAIN ret.val[r] =
                    {KeyOf(disc.names[i], call.arg.exclude) : i \in 1..Len(disc.names)}
              /\ \A i \in 1..Len(disc.names) :
                    ret.val[r][KeyOf(disc.names[i], call.arg.exclude)]
                        = disc.rows[r][i].val

\* A file of two columns and two data lines, its columns two separators
\* apart, was read with one leading character excluded.
C4_Witness ==
    /\ call.op = "disc_read"
    /\ call.arg = [sep |-> "\t", exclude |-> 1]
    /\ ret.exc = "none"
    /\ disc.sep = "\t"
    /\ disc.names = <<N_nb, N_max>>
    /\ Len(disc.rows) = 2
    /\ Contains(disc.text, <<"\t", "\t">>)
    /\ Len(ret.val) = 2

====
